---- MODULE Spec2Model ----
(***************************************************************************)
(* State-machine model of src/src/App.tsx: the recording controller        *)
(* (startRecording / pauseRecording / stopRecording / processRecording),   *)
(* the audio level monitor and the session store (loadSessions /           *)
(* saveSession / deleteSession with the localStorage fallback).            *)
(*                                                                         *)
(* The program is single-threaded: every action below is one event-loop    *)
(* task (a click handler, a timer or animation-frame callback, a recorder  *)
(* event, or the continuation of an async function after an await).  A     *)
(* click handler reads the React state of the latest render; the           *)
(* continuation of an async function still reads the values its render     *)
(* captured, so every invocation stores that snapshot.                     *)
(*                                                                         *)
(* Timer and animation-frame handles are fresh on every request and each   *)
(* ref is overwritten by every request, so a ref always names the most     *)
(* recently requested handle.  The model therefore keeps, per kind, the    *)
(* status of the handle the ref names and the number of live handles no    *)
(* ref names any more (they can never be cancelled).                       *)
(*                                                                         *)
(* The timestamp field of a session is not modelled.                       *)
(***************************************************************************)
EXTENDS Integers, Sequences, FiniteSets, TLC

\* ------------------------------------------------------------------ bounds
MaxStarts == 2          \* startRecording invocations in one run of Spec
SoloStarts == 1         \* startRecording invocations in one run of SpecSolo
MaxChunks == 1          \* timeslice dataavailable events per recorder
MaxDuration == 1        \* cap of the duration counter
MaxLoads == 1           \* list calls of one user in flight
StoreStarts == 1        \* startRecording invocations in one run of SpecStore
MaxDeletes == 1         \* deleteSession invocations in one run of SpecStore
PreExisting == 10       \* sessions of user A in the remote store of SpecStore
MaxSeconds == 3700      \* cap of the duration counter in SpecFormat

\* --------------------------------------------------------- program constants
ListLimit == 10         \* limit: 10 of the list call
SliceEnd == 9           \* slice(0, 9) of saveSession
FftSize == 256          \* analyser fftSize
RefAmplitude == 128     \* empirical reference amplitude of the level
MaxLevel == 100         \* Math.min(100, ...)

\* ------------------------------------------------------------ input domains
NoUser == "null"
Users == {"A", "B"}
Languages == {"en", "es"}
Texts == {"hello"}
NoCall == 0

VARIABLES
    \* React state (useState)
    user, loading, isRecording, isPaused, transcriptionText, isTranscribing,
    selectedLanguage, recordingDuration, audioLevel, sessions,
    \* refs (useRef)
    mediaRecorderRef, audioChunksRef, streamRef, audioContextRef, analyserRef,
    animationFrameRef, durationIntervalRef,
    \* platform
    recorderSupported, calls, liveStreams, openContexts,
    orphanIntervals, orphanFrames,
    \* backend and device storage
    db, localStorage, loads, deletes,
    \* history: recordingDuration when pauseRecording last paused
    durationAtPause,
    \* history: deleteSession invocations so far
    nDeletes,
    \* history: ids of the sessions whose deleteSession call has returned
    deleted

reactVars == <<user, loading, isRecording, isPaused, transcriptionText,
               isTranscribing, selectedLanguage, recordingDuration, audioLevel,
               sessions>>
refVars == <<mediaRecorderRef, audioChunksRef, streamRef, audioContextRef,
             analyserRef, animationFrameRef, durationIntervalRef>>
platformVars == <<recorderSupported, calls, liveStreams, openContexts,
                  orphanIntervals, orphanFrames>>
storeVars == <<db, localStorage, loads, deletes>>
histVars == <<durationAtPause, nDeletes, deleted>>
vars == <<reactVars, refVars, platformVars, storeVars, histVars>>

\* ----------------------------------------------------------------- helpers
Min(a, b) == IF a < b THEN a ELSE b

\* Array.prototype.slice(0, n)
Slice(s, n) == SubSeq(s, 1, Min(n, Len(s)))

\* Array.prototype.filter(x => x.id !== id)
RECURSIVE FilterOut(_, _)
FilterOut(s, id) ==
    IF s = <<>> THEN <<>>
    ELSE IF Head(s).id = id THEN FilterOut(Tail(s), id)
    ELSE <<Head(s)>> \o FilterOut(Tail(s), id)

Ids(s) == {s[i].id : i \in 1..Len(s)}

\* interface TranscriptionSession (timestamp left out)
Session(id, text, language, duration) ==
    [id |-> id, text |-> text, language |-> language, duration |-> duration]

\* A session that already exists in the remote store when the app starts.
OldSession(i) == Session(i, "old", "en", i % 2)

\* ids: the local one of saveSession, the one the remote create returns
LocalId(r) == 1000 + r
DbId(r) == 2000 + r

\* JSON.stringify(sessions) / JSON.parse(stored).map(...): the stored form is
\* a list of field tuples.
Stringify(s) == [i \in 1..Len(s) |->
                   <<s[i].id, s[i].text, s[i].language, s[i].duration>>]
Parse(j) == [i \in 1..Len(j) |-> Session(j[i][1], j[i][2], j[i][3], j[i][4])]

NoItem == [has |-> FALSE, val |-> <<>>]
Item(j) == [has |-> TRUE, val |-> j]

\* One startRecording invocation: the values its render captured, the
\* recorder it created, and the processRecording run of that recorder.
NewCall(lang, dur, sess, usr) ==
    [media |-> "pending",      \* getUserMedia: pending | granted | denied
     rec |-> "none",           \* MediaRecorder.state, "none" before creation
     stopPending |-> FALSE,    \* stop() called, stop event not yet delivered
     stopSignalled |-> FALSE,  \* the stop event was delivered
     nChunks |-> 0,            \* dataavailable events delivered
     fin |-> "none",           \* processRecording of this recorder
     payload |-> <<>>,         \* chunks of the Blob built by processRecording
     text |-> "",              \* result of transcribeAudio
     transcribeCalls |-> 0,    \* transcribeAudio invocations
     lang |-> lang, dur |-> dur, sess |-> sess, usr |-> usr]

\* The invocation c has run to its end: nothing reads the values its render
\* captured, its Blob or its text any more (the closure is garbage), so the
\* model drops them.
Returned(c) ==
    [c EXCEPT !.lang = "en", !.dur = 0, !.sess = <<>>, !.usr = NoUser,
              !.payload = <<>>, !.text = "", !.nChunks = 0]

\* The page with the controls is rendered (lines 347-374).
ControlsShown == ~loading /\ user # NoUser

ActiveIntervals ==
    orphanIntervals + (IF durationIntervalRef = "active" THEN 1 ELSE 0)
ScheduledFrames ==
    orphanFrames + (IF animationFrameRef = "pending" THEN 1 ELSE 0)

\* ------------------------------------------------------------------- Init
\* The app after construction, with n sessions of user A in the remote store.
InitWith(n) ==
    /\ user = NoUser /\ loading = TRUE
    /\ isRecording = FALSE /\ isPaused = FALSE
    /\ transcriptionText = "" /\ isTranscribing = FALSE
    /\ selectedLanguage = "en" /\ recordingDuration = 0
    /\ audioLevel = 0 /\ sessions = <<>>
    /\ mediaRecorderRef = NoCall /\ audioChunksRef = <<>>
    /\ streamRef = NoCall /\ audioContextRef = NoCall /\ analyserRef = NoCall
    /\ animationFrameRef = "null" /\ durationIntervalRef = "null"
    /\ recorderSupported \in BOOLEAN
    /\ calls = <<>>
    /\ liveStreams = {} /\ openContexts = {}
    /\ orphanIntervals = 0 /\ orphanFrames = 0
    /\ db = [u \in Users |->
               IF u = "A" THEN [i \in 1..n |-> OldSession(n + 1 - i)]
               ELSE <<>>]
    /\ localStorage = [u \in Users |-> NoItem]
    /\ loads = [u \in Users |-> 0]
    /\ deletes = <<>>
    /\ durationAtPause = 0
    /\ nDeletes = 0
    /\ deleted = {}

\* The first use of the app: the remote store is empty.
Init == InitWith(0)

\* --------------------------------------------------------- audio level monitor
BinCount == FftSize \div 2      \* analyser.frequencyBinCount

\* dataArray.reduce((sum, value) => sum + value, 0), over the bins lo..hi;
\* the sum is split in halves to keep the recursion shallow.
RECURSIVE SumBins(_, _, _)
SumBins(d, lo, hi) ==
    IF lo > hi THEN 0
    ELSE IF lo = hi THEN d[lo]
    ELSE LET mid == (lo + hi) \div 2
         IN SumBins(d, lo, mid) + SumBins(d, mid + 1, hi)

\* The level is kept exactly, in units of 1/LevelUnit percent:
\* Math.min(100, (average / 128) * 100) with average = sum / dataArray.length.
LevelUnit == RefAmplitude * BinCount

\* The level without Math.min.
LevelUnclamped(d) == SumBins(d, 1, BinCount) * 100

Level(d) == Min(MaxLevel * LevelUnit, SumBins(d, 1, BinCount) * 100)

\* Frequency data the analyser may hand out: silence, a quiet and a full-scale
\* signal in every bin.
Buffer(v) == [i \in 1..BinCount |-> v]
SampleBuffers == {Buffer(0), Buffer(64), Buffer(255)}
SampleLevels == {Level(d) : d \in SampleBuffers}

\* More frequency data for the level computation: the first k bins at
\* amplitude v and the others silent, for amplitudes and fills on both sides
\* of the reference amplitude, and a ramp over the odd amplitudes, whose mean
\* is the reference amplitude.
ByteMax == 255          \* largest element of a Uint8Array
PartBuffer(k, v) == [i \in 1..BinCount |-> IF i <= k THEN v ELSE 0]
Ramp == [i \in 1..BinCount |-> 2 * i - 1]
Amplitudes == {0, 1, RefAmplitude - 1, RefAmplitude, RefAmplitude + 1, ByteMax}
Fills == {1, BinCount \div 4, BinCount \div 2, BinCount - 1, BinCount}
LevelBuffers == {PartBuffer(k, v) : k \in Fills, v \in Amplitudes} \cup {Ramp}
MonitorLevels == {Level(d) : d \in LevelBuffers}

\* requestAnimationFrame(monitorAudioLevel) with its handle stored in
\* animationFrameRef: a frame the ref named and that is still pending is
\* named by no ref afterwards.
RequestFrame ==
    /\ animationFrameRef' = "pending"
    /\ orphanFrames' = orphanFrames + (IF animationFrameRef = "pending" THEN 1 ELSE 0)

\* monitorAudioLevel called from startRecording (line 170): analyserRef was
\* set just before, so the guard of line 250 holds.
MonitorFromStart(lvl) ==
    /\ audioLevel' = lvl
    /\ RequestFrame

\* A scheduled frame fires: monitorAudioLevel as animation-frame callback.
\* Either the frame animationFrameRef names fires, or one no ref names.
MonitorAudioLevel(lvl) ==
    /\ ScheduledFrames > 0
    /\ analyserRef # NoCall
    /\ audioLevel' = lvl
    /\ \/ /\ animationFrameRef = "pending"
          /\ UNCHANGED <<animationFrameRef, orphanFrames>>
       \/ /\ orphanFrames > 0
          /\ animationFrameRef' = "pending"
          /\ orphanFrames' = IF animationFrameRef = "pending"
                             THEN orphanFrames ELSE orphanFrames - 1
    /\ UNCHANGED <<user, loading, isRecording, isPaused, transcriptionText,
                   isTranscribing, selectedLanguage, recordingDuration, sessions>>
    /\ UNCHANGED <<mediaRecorderRef, audioChunksRef, streamRef, audioContextRef,
                   analyserRef, durationIntervalRef>>
    /\ UNCHANGED <<recorderSupported, calls, liveStreams, openContexts, orphanIntervals>>
    /\ UNCHANGED storeVars
    /\ UNCHANGED histVars

\* ------------------------------------------------------------ duration timer
\* setInterval(...) with its handle stored in durationIntervalRef.
StartInterval ==
    /\ durationIntervalRef' = "active"
    /\ orphanIntervals' = orphanIntervals + (IF durationIntervalRef = "active" THEN 1 ELSE 0)

\* if (durationIntervalRef.current) clearInterval(durationIntervalRef.current)
ClearInterval ==
    /\ durationIntervalRef' = IF durationIntervalRef = "null" THEN "null" ELSE "cleared"
    /\ UNCHANGED orphanIntervals

\* One interval callback: setRecordingDuration(prev => prev + 1).
DurationTick ==
    /\ ActiveIntervals > 0
    /\ recordingDuration' = recordingDuration + 1
    /\ UNCHANGED <<user, loading, isRecording, isPaused, transcriptionText,
                   isTranscribing, selectedLanguage, audioLevel, sessions>>
    /\ UNCHANGED <<refVars, platformVars, storeVars>>
    /\ UNCHANGED histVars

\* ------------------------------------------------------------ formatDuration
\* A string is modelled as the sequence of its characters.
DigitChars == <<"0", "1", "2", "3", "4", "5", "6", "7", "8", "9">>

\* Number.prototype.toString() of a non-negative integer
RECURSIVE NumberToString(_)
NumberToString(n) ==
    IF n < 10 THEN <<DigitChars[n + 1]>>
    ELSE NumberToString(n \div 10) \o <<DigitChars[(n % 10) + 1]>>

\* String.prototype.padStart(len, ch)
RECURSIVE PadStart(_, _, _)
PadStart(str, len, ch) ==
    IF Len(str) >= len THEN str ELSE PadStart(<<ch>> \o str, len, ch)

\* formatDuration without the padStart
FormatDurationUnpadded(seconds) ==
    LET mins == seconds \div 60
        secs == seconds % 60
    IN NumberToString(mins) \o <<":">> \o NumberToString(secs)

\* formatDuration (lines 341-345)
FormatDuration(seconds) ==
    LET mins == seconds \div 60
        secs == seconds % 60
    IN NumberToString(mins) \o <<":">> \o PadStart(NumberToString(secs), 2, "0")

\* ------------------------------------------------------------ startRecording
\* The click on the start button (rendered when !isRecording, disabled when
\* isTranscribing): startRecording runs up to the await of getUserMedia.
StartRecording ==
    /\ ControlsShown
    /\ ~isRecording /\ ~isTranscribing
    /\ calls' = Append(calls,
                       NewCall(selectedLanguage, recordingDuration, sessions, user))
    /\ UNCHANGED <<reactVars, refVars, storeVars>>
    /\ UNCHANGED <<recorderSupported, liveStreams, openContexts, orphanIntervals,
                   orphanFrames>>
    /\ UNCHANGED histVars

\* getUserMedia rejects: the catch block only logs and toasts.
MediaDenied(r) ==
    /\ calls[r].media = "pending"
    /\ calls' = [calls EXCEPT ![r] = Returned([@ EXCEPT !.media = "denied"])]
    /\ UNCHANGED <<reactVars, refVars, storeVars>>
    /\ UNCHANGED <<recorderSupported, liveStreams, openContexts, orphanIntervals,
                   orphanFrames>>
    /\ UNCHANGED histVars

\* getUserMedia resolves: lines 159-198.  Where the platform does not support
\* the requested mimeType the MediaRecorder constructor (line 172) throws and
\* the catch block runs with lines 159-170 already executed.
MediaGranted(r, lvl) ==
    /\ calls[r].media = "pending"
    /\ streamRef' = r
    /\ liveStreams' = liveStreams \cup {r}
    /\ audioChunksRef' = <<>>
    /\ audioContextRef' = r
    /\ analyserRef' = r
    /\ openContexts' = openContexts \cup {r}
    /\ MonitorFromStart(lvl)
    /\ IF recorderSupported
       THEN /\ mediaRecorderRef' = r
            /\ calls' = [calls EXCEPT ![r].media = "granted", ![r].rec = "recording"]
            /\ isRecording' = TRUE
            /\ isPaused' = FALSE
            /\ recordingDuration' = 0
            /\ StartInterval
       ELSE /\ calls' = [calls EXCEPT ![r] = Returned([@ EXCEPT !.media = "granted"])]
            /\ UNCHANGED <<mediaRecorderRef, isRecording, isPaused, recordingDuration,
                           durationIntervalRef, orphanIntervals>>
    /\ UNCHANGED <<user, loading, transcriptionText, isTranscribing,
                   selectedLanguage, sessions>>
    /\ UNCHANGED <<recorderSupported, storeVars>>
    /\ UNCHANGED histVars

\* ------------------------------------------------------------- stopRecording
\* MediaRecorder.stop(): the recorder becomes inactive at once; its last
\* dataavailable event and its stop event are delivered by a later task.
\* stop() on a recorder that is already inactive does nothing.
RecorderStop(r) ==
    IF calls[r].rec = "inactive"
    THEN UNCHANGED calls
    ELSE calls' = [calls EXCEPT ![r].rec = "inactive", ![r].stopPending = TRUE]

\* stopRecording with a setRecordingDuration(0) added.
StopRecordingResetsDuration ==
    /\ ControlsShown
    /\ isRecording
    /\ IF mediaRecorderRef # NoCall /\ isRecording
       THEN /\ RecorderStop(mediaRecorderRef)
            /\ isRecording' = FALSE
            /\ isPaused' = FALSE
            /\ liveStreams' = liveStreams \ {streamRef}
            /\ openContexts' = openContexts \ {audioContextRef}
            /\ animationFrameRef' = IF animationFrameRef = "null"
                                    THEN "null" ELSE "cancelled"
            /\ ClearInterval
            /\ audioLevel' = 0
            /\ recordingDuration' = 0
            /\ UNCHANGED <<user, loading, transcriptionText, isTranscribing,
                           selectedLanguage, sessions>>
            /\ UNCHANGED <<mediaRecorderRef, audioChunksRef, streamRef,
                           audioContextRef, analyserRef>>
            /\ UNCHANGED <<recorderSupported, orphanFrames>>
       ELSE UNCHANGED <<reactVars, refVars, platformVars>>
    /\ UNCHANGED storeVars
    /\ UNCHANGED histVars

\* stopRecording without the setIsPaused(false).
StopRecordingKeepsPaused ==
    /\ ControlsShown
    /\ isRecording
    /\ IF mediaRecorderRef # NoCall /\ isRecording
       THEN /\ RecorderStop(mediaRecorderRef)
            /\ isRecording' = FALSE
            /\ UNCHANGED isPaused
            /\ liveStreams' = liveStreams \ {streamRef}
            /\ openContexts' = openContexts \ {audioContextRef}
            /\ animationFrameRef' = IF animationFrameRef = "null"
                                    THEN "null" ELSE "cancelled"
            /\ ClearInterval
            /\ audioLevel' = 0
            /\ UNCHANGED <<user, loading, transcriptionText, isTranscribing,
                           selectedLanguage, recordingDuration, sessions>>
            /\ UNCHANGED <<mediaRecorderRef, audioChunksRef, streamRef,
                           audioContextRef, analyserRef>>
            /\ UNCHANGED <<recorderSupported, orphanFrames>>
       ELSE UNCHANGED <<reactVars, refVars, platformVars>>
    /\ UNCHANGED storeVars
    /\ UNCHANGED histVars

\* The click on the stop button (rendered when isRecording): lines 205-227.
StopRecording ==
    /\ ControlsShown
    /\ isRecording
    /\ IF mediaRecorderRef # NoCall /\ isRecording
       THEN /\ RecorderStop(mediaRecorderRef)
            /\ isRecording' = FALSE
            /\ isPaused' = FALSE
            /\ liveStreams' = liveStreams \ {streamRef}
            /\ openContexts' = openContexts \ {audioContextRef}
            /\ animationFrameRef' = IF animationFrameRef = "null"
                                    THEN "null" ELSE "cancelled"
            /\ ClearInterval
            /\ audioLevel' = 0
            /\ UNCHANGED <<user, loading, transcriptionText, isTranscribing,
                           selectedLanguage, recordingDuration, sessions>>
            /\ UNCHANGED <<mediaRecorderRef, audioChunksRef, streamRef,
                           audioContextRef, analyserRef>>
            /\ UNCHANGED <<recorderSupported, orphanFrames>>
       ELSE UNCHANGED <<reactVars, refVars, platformVars>>
    /\ UNCHANGED storeVars
    /\ UNCHANGED histVars

\* ------------------------------------------------------------ pauseRecording
\* The click on the pause/resume button (rendered when isRecording):
\* lines 229-247.  resume() and pause() leave a recorder that is already in
\* the requested state as it is.
PauseRecording ==
    /\ ControlsShown
    /\ isRecording
    /\ IF mediaRecorderRef # NoCall /\ isRecording
          /\ calls[mediaRecorderRef].rec # "inactive"
       THEN IF isPaused
            THEN /\ calls' = [calls EXCEPT ![mediaRecorderRef].rec = "recording"]
                 /\ isPaused' = FALSE
                 /\ StartInterval
                 /\ durationAtPause' = 0
            ELSE /\ calls' = [calls EXCEPT ![mediaRecorderRef].rec = "paused"]
                 /\ isPaused' = TRUE
                 /\ ClearInterval
                 /\ durationAtPause' = recordingDuration
       ELSE UNCHANGED <<calls, isPaused, durationIntervalRef, orphanIntervals,
                        durationAtPause>>
    /\ UNCHANGED <<nDeletes, deleted>>
    /\ UNCHANGED <<user, loading, isRecording, transcriptionText, isTranscribing,
                   selectedLanguage, recordingDuration, audioLevel, sessions>>
    /\ UNCHANGED <<mediaRecorderRef, audioChunksRef, streamRef, audioContextRef,
                   analyserRef, animationFrameRef>>
    /\ UNCHANGED <<recorderSupported, liveStreams, openContexts, orphanFrames>>
    /\ UNCHANGED storeVars

\* ----------------------------------------------------------- recorder events
\* A chunk is named by its recorder and its number among that recorder's
\* dataavailable events.
Chunk(r, n) == <<r, n>>

\* mediaRecorder.ondataavailable (lines 178-182)
OnDataAvailable(chunks, r, n, size) ==
    IF size > 0 THEN Append(chunks, Chunk(r, n)) ELSE chunks

\* A timeslice event of a recorder that is recording (start(1000)).
DataAvailable(r, size) ==
    /\ calls[r].rec = "recording"
    /\ audioChunksRef' = OnDataAvailable(audioChunksRef, r, calls[r].nChunks + 1, size)
    /\ calls' = [calls EXCEPT ![r].nChunks = @ + 1]
    /\ UNCHANGED <<mediaRecorderRef, streamRef, audioContextRef, analyserRef,
                   animationFrameRef, durationIntervalRef>>
    /\ UNCHANGED <<recorderSupported, liveStreams, openContexts, orphanIntervals,
                   orphanFrames>>
    /\ UNCHANGED <<reactVars, storeVars>>
    /\ UNCHANGED histVars

\* ---------------------------------------------------------- processRecording
\* The task a stop() queued: the last dataavailable event, then the stop
\* event, whose handler runs processRecording up to its first await
\* (lines 184-186, 261-279).
RecorderStopped(r, size) ==
    /\ calls[r].stopPending
    /\ LET chunks == OnDataAvailable(audioChunksRef, r, calls[r].nChunks + 1, size)
       IN /\ audioChunksRef' = chunks
          /\ IF Len(chunks) = 0
             THEN /\ calls' = [calls EXCEPT ![r] =
                                Returned([@ EXCEPT !.stopPending = FALSE,
                                                   !.stopSignalled = TRUE,
                                                   !.fin = "skipped"])]
                  /\ UNCHANGED isTranscribing
             ELSE /\ calls' = [calls EXCEPT ![r].stopPending = FALSE,
                                            ![r].stopSignalled = TRUE,
                                            ![r].nChunks = @ + 1,
                                            ![r].fin = "encoding",
                                            ![r].payload = chunks]
                  /\ isTranscribing' = TRUE
    /\ UNCHANGED <<user, loading, isRecording, isPaused, transcriptionText,
                   selectedLanguage, recordingDuration, audioLevel, sessions>>
    /\ UNCHANGED <<mediaRecorderRef, streamRef, audioContextRef, analyserRef,
                   animationFrameRef, durationIntervalRef>>
    /\ UNCHANGED <<recorderSupported, liveStreams, openContexts, orphanIntervals,
                   orphanFrames>>
    /\ UNCHANGED storeVars
    /\ UNCHANGED histVars

\* Mutant of ProcessFailed: the catch block without the finally block.
ProcessFailedNoFinally(r) ==
    /\ calls' = [calls EXCEPT ![r] = Returned([@ EXCEPT !.fin = "failed"])]
    /\ UNCHANGED <<reactVars, refVars, storeVars>>
    /\ UNCHANGED <<recorderSupported, liveStreams, openContexts, orphanIntervals,
                   orphanFrames>>
    /\ UNCHANGED histVars

\* catch and finally of processRecording (lines 293-298)
ProcessFailed(r) ==
    /\ calls' = [calls EXCEPT ![r] = Returned([@ EXCEPT !.fin = "failed"])]
    /\ isTranscribing' = FALSE
    /\ UNCHANGED <<user, loading, isRecording, isPaused, transcriptionText,
                   selectedLanguage, recordingDuration, audioLevel, sessions>>
    /\ UNCHANGED <<refVars, storeVars>>
    /\ UNCHANGED <<recorderSupported, liveStreams, openContexts, orphanIntervals,
                   orphanFrames>>
    /\ UNCHANGED histVars

\* reader.onerror: the base64 promise rejects.
EncodeFailed(r) ==
    /\ calls[r].fin = "encoding"
    /\ ProcessFailed(r)

\* reader.onload: the base64 promise resolves and transcribeAudio is called
\* with the language the render of this call captured (lines 282-285).
EncodeDone(r) ==
    /\ calls[r].fin = "encoding"
    /\ calls' = [calls EXCEPT ![r].fin = "transcribing",
                              ![r].transcribeCalls = @ + 1]
    /\ UNCHANGED <<reactVars, refVars, storeVars>>
    /\ UNCHANGED <<recorderSupported, liveStreams, openContexts, orphanIntervals,
                   orphanFrames>>
    /\ UNCHANGED histVars

\* Mutant of TranscribeFailed: the rejected call is issued again.
TranscribeFailedRetry(r) ==
    /\ calls[r].fin = "transcribing"
    /\ calls' = [calls EXCEPT ![r].transcribeCalls = @ + 1]
    /\ UNCHANGED <<reactVars, refVars, storeVars>>
    /\ UNCHANGED <<recorderSupported, liveStreams, openContexts, orphanIntervals,
                   orphanFrames>>
    /\ UNCHANGED histVars

\* transcribeAudio rejects.
TranscribeFailed(r) ==
    /\ calls[r].fin = "transcribing"
    /\ ProcessFailed(r)

\* transcribeAudio resolves: setTranscriptionText(text), then saveSession is
\* called and runs up to the await of the remote create (lines 287-290,
\* 115-132).
TranscribeDone(r, text) ==
    /\ calls[r].fin = "transcribing"
    /\ transcriptionText' = text
    /\ calls' = [calls EXCEPT ![r].fin = "saving", ![r].text = text]
    /\ UNCHANGED <<user, loading, isRecording, isPaused, isTranscribing,
                   selectedLanguage, recordingDuration, audioLevel, sessions>>
    /\ UNCHANGED <<refVars, storeVars>>
    /\ UNCHANGED <<recorderSupported, liveStreams, openContexts, orphanIntervals,
                   orphanFrames>>
    /\ UNCHANGED histVars

\* --------------------------------------------------------------- saveSession
\* newSession of the saveSession call of r (lines 116-122): text and duration
\* are the arguments, the language is the one the render captured.
NewSession(r, id) == Session(id, calls[r].text, calls[r].lang, calls[r].dur)

\* localStorage.setItem(key of usr, JSON.stringify(s)) inside the try of
\* saveSessionsToLocalStorage (lines 100-106); when setItem throws (quota,
\* storage disabled) the error is logged and nothing is stored.
SaveSessionsToLocalStorage(usr, s, ok) ==
    IF ok
    THEN localStorage' = [localStorage EXCEPT ![usr] = Item(Stringify(s))]
    ELSE UNCHANGED localStorage

\* finally of processRecording after saveSession returned
ProcessDone(r) ==
    /\ calls' = [calls EXCEPT ![r] = Returned([@ EXCEPT !.fin = "done"])]
    /\ isTranscribing' = FALSE

\* saveSession's success branch without the slice(0, 9)
SaveRemoteDoneUncapped(r) ==
    /\ calls[r].fin = "saving"
    /\ db' = [db EXCEPT ![calls[r].usr] = <<NewSession(r, DbId(r))>> \o @]
    /\ sessions' = <<NewSession(r, DbId(r))>> \o sessions
    /\ ProcessDone(r)
    /\ UNCHANGED <<user, loading, isRecording, isPaused, transcriptionText,
                   selectedLanguage, recordingDuration, audioLevel>>
    /\ UNCHANGED <<localStorage, loads, deletes>>
    /\ UNCHANGED refVars
    /\ UNCHANGED <<recorderSupported, liveStreams, openContexts, orphanIntervals,
                   orphanFrames>>
    /\ UNCHANGED histVars

\* The remote create resolves (lines 134-137); the record is stored under the
\* user the render captured.
SaveRemoteDone(r) ==
    /\ calls[r].fin = "saving"
    /\ db' = [db EXCEPT ![calls[r].usr] = <<NewSession(r, DbId(r))>> \o @]
    /\ sessions' = <<NewSession(r, DbId(r))>> \o Slice(sessions, SliceEnd)
    /\ ProcessDone(r)
    /\ UNCHANGED <<user, loading, isRecording, isPaused, transcriptionText,
                   selectedLanguage, recordingDuration, audioLevel>>
    /\ UNCHANGED <<localStorage, loads, deletes>>
    /\ UNCHANGED refVars
    /\ UNCHANGED <<recorderSupported, liveStreams, openContexts, orphanIntervals,
                   orphanFrames>>
    /\ UNCHANGED histVars

\* The remote create rejects (lines 138-146): the list the render captured is
\* the base of the new list.
SaveRemoteFailed(r, ok) ==
    /\ calls[r].fin = "saving"
    /\ LET updatedSessions ==
               <<NewSession(r, LocalId(r))>> \o Slice(calls[r].sess, SliceEnd)
       IN /\ sessions' = updatedSessions
          /\ SaveSessionsToLocalStorage(calls[r].usr, updatedSessions, ok)
    /\ ProcessDone(r)
    /\ UNCHANGED <<user, loading, isRecording, isPaused, transcriptionText,
                   selectedLanguage, recordingDuration, audioLevel>>
    /\ UNCHANGED <<db, loads, deletes>>
    /\ UNCHANGED refVars
    /\ UNCHANGED <<recorderSupported, liveStreams, openContexts, orphanIntervals,
                   orphanFrames>>
    /\ UNCHANGED histVars

\* ------------------------------------------------------- auth and loadSessions
\* onAuthStateChanged callback (lines 56-59); with a user the load effect
\* (lines 109-113) calls loadSessions, which runs up to the await of list.
\* isLoading is reported only while no user is known.
AuthStateChanged(u, l) ==
    /\ l => u = NoUser
    /\ user' = u
    /\ loading' = l
    /\ loads' = IF u # NoUser THEN [loads EXCEPT ![u] = @ + 1] ELSE loads
    /\ UNCHANGED <<isRecording, isPaused, transcriptionText, isTranscribing,
                   selectedLanguage, recordingDuration, audioLevel, sessions>>
    /\ UNCHANGED <<refVars, platformVars>>
    /\ UNCHANGED <<db, localStorage, deletes>>
    /\ UNCHANGED histVars

\* The list call of user u resolves (lines 86-92): the newest ListLimit
\* records of u.
LoadDone(u) ==
    /\ loads[u] > 0
    /\ loads' = [loads EXCEPT ![u] = @ - 1]
    /\ sessions' = Slice(db[u], ListLimit)
    /\ UNCHANGED <<user, loading, isRecording, isPaused, transcriptionText,
                   isTranscribing, selectedLanguage, recordingDuration, audioLevel>>
    /\ UNCHANGED <<db, localStorage, deletes>>
    /\ UNCHANGED <<refVars, platformVars>>
    /\ UNCHANGED histVars

\* loadSessionsFromLocalStorage for user u (lines 63-76): without a stored
\* item, or when reading it throws (ok = FALSE), the list stays as it is.
LoadSessionsFromLocalStorage(u, ok) ==
    IF ok /\ localStorage[u].has
    THEN sessions' = Parse(localStorage[u].val)
    ELSE UNCHANGED sessions

\* The list call of user u rejects (lines 93-97).
LoadFailed(u, ok) ==
    /\ loads[u] > 0
    /\ loads' = [loads EXCEPT ![u] = @ - 1]
    /\ LoadSessionsFromLocalStorage(u, ok)
    /\ UNCHANGED <<user, loading, isRecording, isPaused, transcriptionText,
                   isTranscribing, selectedLanguage, recordingDuration, audioLevel>>
    /\ UNCHANGED <<db, localStorage, deletes>>
    /\ UNCHANGED <<refVars, platformVars>>
    /\ UNCHANGED histVars

\* ------------------------------------------------------------- deleteSession
\* The click on a session's delete button: deleteSession runs up to the await
\* of the remote delete, with the list and the user of its render.
DeleteSession(id) ==
    /\ ControlsShown
    /\ id \in Ids(sessions)
    /\ deletes' = Append(deletes, [id |-> id, sess |-> sessions, usr |-> user])
    /\ UNCHANGED <<reactVars, refVars, platformVars>>
    /\ UNCHANGED <<db, localStorage, loads>>
    /\ nDeletes' = nDeletes + 1
    /\ UNCHANGED <<durationAtPause, deleted>>

RemoveAt(s, i) == SubSeq(s, 1, i - 1) \o SubSeq(s, i + 1, Len(s))

\* The remote delete resolves (lines 327-329); the store drops the record
\* with that id if it holds one.
DeleteRemoteDone(i) ==
    /\ i \in 1..Len(deletes)
    /\ db' = [u \in Users |-> FilterOut(db[u], deletes[i].id)]
    /\ sessions' = FilterOut(deletes[i].sess, deletes[i].id)
    /\ deletes' = RemoveAt(deletes, i)
    /\ UNCHANGED <<user, loading, isRecording, isPaused, transcriptionText,
                   isTranscribing, selectedLanguage, recordingDuration, audioLevel>>
    /\ UNCHANGED <<localStorage, loads>>
    /\ UNCHANGED <<refVars, platformVars>>
    /\ deleted' = deleted \cup {deletes[i].id}
    /\ UNCHANGED <<durationAtPause, nDeletes>>

\* The remote delete rejects (lines 330-338).
DeleteRemoteFailed(i, ok) ==
    /\ i \in 1..Len(deletes)
    /\ LET updatedSessions == FilterOut(deletes[i].sess, deletes[i].id)
       IN /\ sessions' = updatedSessions
          /\ SaveSessionsToLocalStorage(deletes[i].usr, updatedSessions, ok)
    /\ deletes' = RemoveAt(deletes, i)
    /\ UNCHANGED <<user, loading, isRecording, isPaused, transcriptionText,
                   isTranscribing, selectedLanguage, recordingDuration, audioLevel>>
    /\ UNCHANGED <<db, loads>>
    /\ UNCHANGED <<refVars, platformVars>>
    /\ deleted' = deleted \cup {deletes[i].id}
    /\ UNCHANGED <<durationAtPause, nDeletes>>

\* ------------------------------------------------------------------ language
\* Select onValueChange={setSelectedLanguage} (line 416)
SetSelectedLanguage(l) ==
    /\ ControlsShown
    /\ l # selectedLanguage
    /\ selectedLanguage' = l
    /\ UNCHANGED <<user, loading, isRecording, isPaused, transcriptionText,
                   isTranscribing, recordingDuration, audioLevel, sessions>>
    /\ UNCHANGED <<refVars, platformVars, storeVars>>
    /\ UNCHANGED histVars


\* ------------------------------------------------------ recording controller
Calls == 1..Len(calls)

\* One user signs in and records: the user's clicks and the platform's events
\* interleave freely, with at most maxStarts startRecording invocations.
Controller(maxStarts) ==
    \/ loads["A"] < MaxLoads /\ AuthStateChanged("A", FALSE)
    \/ LoadDone("A")
    \/ Len(calls) < maxStarts /\ StartRecording
    \/ \E r \in Calls : MediaDenied(r)
    \/ \E r \in Calls, lvl \in SampleLevels : MediaGranted(r, lvl)
    \/ \E lvl \in SampleLevels : MonitorAudioLevel(lvl)
    \/ recordingDuration < MaxDuration /\ DurationTick
    \/ PauseRecording
    \/ StopRecording
    \/ \E r \in Calls, size \in {0, 1} :
          calls[r].nChunks < MaxChunks /\ DataAvailable(r, size)
    \/ \E r \in Calls, size \in {0, 1} : RecorderStopped(r, size)
    \/ \E r \in Calls : EncodeFailed(r)
    \/ \E r \in Calls : EncodeDone(r)
    \/ \E r \in Calls : TranscribeFailed(r)
    \/ \E r \in Calls, text \in Texts : TranscribeDone(r, text)
    \/ \E r \in Calls : SaveRemoteDone(r)
    \/ \E r \in Calls, ok \in BOOLEAN : SaveRemoteFailed(r, ok)

\* Spec: the controller with two startRecording invocations, so that a second
\* one can be issued while the first is still in flight.
Next == Controller(MaxStarts)
Spec == Init /\ [][Next]_vars

\* SpecSolo: the controller with SoloStarts invocations.
NextSolo == Controller(SoloStarts)
SpecSolo == Init /\ [][NextSolo]_vars

\* -------------------------------------------------------------- session store
\* The sessions whose delete button the user clicks: the first and the last
\* of the list.
DeleteTargets ==
    IF sessions = <<>> THEN {} ELSE {sessions[1].id, sessions[Len(sessions)].id}

\* SpecStore: user A signs in and out, records, and deletes sessions, while
\* the remote calls resolve or reject and localStorage writes succeed or
\* throw.  A already has PreExisting sessions in the remote store.  One
\* recording follows another, each stopped with a non-empty last chunk;
\* overlapping recordings, the level monitor, the duration timer and the
\* pause button are left to Spec.
InitStore == InitWith(PreExisting) /\ recorderSupported

NextStore ==
    \/ \E u \in {"A", NoUser} :
          /\ u # NoUser => loads[u] < MaxLoads
          /\ AuthStateChanged(u, FALSE)
    \/ LoadDone("A")
    \/ \E ok \in BOOLEAN : LoadFailed("A", ok)
    \/ /\ Len(calls) < StoreStarts
       /\ \A r \in Calls : calls[r].fin \in {"done", "failed", "skipped"}
       /\ StartRecording
    \/ \E r \in Calls : MediaGranted(r, 0)
    \/ StopRecording
    \/ \E r \in Calls : RecorderStopped(r, 1)
    \/ \E r \in Calls : EncodeDone(r)
    \/ \E r \in Calls, text \in Texts : TranscribeDone(r, text)
    \/ \E r \in Calls : SaveRemoteDone(r)
    \/ \E r \in Calls, ok \in BOOLEAN : SaveRemoteFailed(r, ok)
    \/ \E id \in DeleteTargets : nDeletes < MaxDeletes /\ DeleteSession(id)
    \/ \E i \in 1..Len(deletes) : DeleteRemoteDone(i)
    \/ \E i \in 1..Len(deletes), ok \in BOOLEAN : DeleteRemoteFailed(i, ok)

SpecStore == InitStore /\ [][NextStore]_vars

\* --------------------------------------------------------------- level monitor
\* SpecLevel: the controller without the processing of a recording (every
\* recorder stops without a chunk), with the level monitor reading the
\* buffers of LevelBuffers.
NextLevel ==
    \/ loads["A"] < MaxLoads /\ AuthStateChanged("A", FALSE)
    \/ LoadDone("A")
    \/ Len(calls) < SoloStarts /\ StartRecording
    \/ \E r \in Calls : MediaDenied(r)
    \/ \E r \in Calls, lvl \in MonitorLevels : MediaGranted(r, lvl)
    \/ \E lvl \in MonitorLevels : MonitorAudioLevel(lvl)
    \/ PauseRecording
    \/ StopRecording
    \/ \E r \in Calls : RecorderStopped(r, 0)

SpecLevel == Init /\ [][NextLevel]_vars

\* ------------------------------------------------------------ duration display
\* SpecFormat: a recording whose duration counter runs up to MaxSeconds; the
\* page shows formatDuration(recordingDuration) (line 445).  The start button
\* is clicked before the counter has run, so that the counter is the only
\* value that grows.
NextFormat ==
    \/ loads["A"] < MaxLoads /\ AuthStateChanged("A", FALSE)
    \/ LoadDone("A")
    \/ Len(calls) < SoloStarts /\ recordingDuration = 0 /\ StartRecording
    \/ \E r \in Calls : MediaGranted(r, 0)
    \/ recordingDuration < MaxSeconds /\ DurationTick
    \/ StopRecording
    \/ \E r \in Calls : RecorderStopped(r, 0)

SpecFormat == Init /\ [][NextFormat]_vars

\* ---------------------------------------------------------- language selection
\* SpecLanguage: the user changes the selected language at any time while
\* recordings are made, stopped with a non-empty chunk, transcribed and saved.
NextLanguage ==
    \/ loads["A"] < MaxLoads /\ AuthStateChanged("A", FALSE)
    \/ LoadDone("A")
    \/ \E l \in Languages : SetSelectedLanguage(l)
    \/ Len(calls) < SoloStarts /\ StartRecording
    \/ \E r \in Calls : MediaGranted(r, 0)
    \/ recordingDuration < MaxDuration /\ DurationTick
    \/ StopRecording
    \/ \E r \in Calls : RecorderStopped(r, 1)
    \/ \E r \in Calls : EncodeDone(r)
    \/ \E r \in Calls : TranscribeFailed(r)
    \/ \E r \in Calls, text \in Texts : TranscribeDone(r, text)
    \/ \E r \in Calls : SaveRemoteDone(r)
    \/ \E r \in Calls, ok \in BOOLEAN : SaveRemoteFailed(r, ok)

SpecLanguage == Init /\ [][NextLanguage]_vars

\* ------------------------------------------------------------------ two users
\* SpecOwners: users A and B sign in and out on the same device, their list
\* calls resolve or reject, and they delete sessions.  Every session is one
\* of the PreExisting sessions of A; B owns none.
NextOwners ==
    \/ \E u \in Users \cup {NoUser} :
          /\ u # NoUser => loads[u] < MaxLoads
          /\ AuthStateChanged(u, FALSE)
    \/ \E u \in Users : LoadDone(u)
    \/ \E u \in Users, ok \in BOOLEAN : LoadFailed(u, ok)
    \/ \E id \in DeleteTargets : nDeletes < MaxDeletes /\ DeleteSession(id)
    \/ \E i \in 1..Len(deletes) : DeleteRemoteDone(i)
    \/ \E i \in 1..Len(deletes), ok \in BOOLEAN : DeleteRemoteFailed(i, ok)

SpecOwners == InitStore /\ [][NextOwners]_vars

\* ===================================================================== claims
LiveRecorders == {r \in Calls : calls[r].rec \in {"recording", "paused"}}

\* processRecording of r is pending (stop() called, stop event not yet
\* delivered) or in flight.
Finalizing(r) ==
    calls[r].stopPending \/ calls[r].fin \in {"encoding", "transcribing", "saving"}

\* C1: in every reachable state at most one recording is active: at most one
\* live recorder, at most one input stream with live tracks and at most one
\* running duration interval.  (Stated for a platform on which a recorder can
\* be created; elsewhere no recording ever becomes active.)
C1_OneActiveRecording ==
    recorderSupported =>
        /\ Cardinality(LiveRecorders) <= 1
        /\ Cardinality(liveStreams) <= 1
        /\ ActiveIntervals <= 1

\* C2: startRecording takes effect only from Idle, so in no reachable state
\* is a recorder live while the stop event or the processRecording run of an
\* earlier recording is pending or in flight.
C2_NoRecordingWhileFinalizing ==
    \A r \in LiveRecorders : \A q \in Calls : q < r => ~Finalizing(q)

\* C3: a duration interval is running only while isRecording is true and
\* isPaused is false.
C3_TickOnlyWhileRecording ==
    ActiveIntervals > 0 => (isRecording /\ ~isPaused)

\* The step in which pauseRecording resumes the recorder it paused.
ResumeStep ==
    /\ isRecording /\ isPaused /\ ~isPaused'
    /\ mediaRecorderRef' = mediaRecorderRef
    /\ calls[mediaRecorderRef].rec = "paused"
    /\ calls'[mediaRecorderRef].rec = "recording"

\* C4: the second of two pauseRecording calls made from Recording leaves the
\* controller recording and not paused, with exactly one duration interval
\* running and the duration counter at the value it had before the first call.
C4_PauseTwiceRestores ==
    [][ResumeStep =>
         /\ isRecording' /\ ~isPaused'
         /\ ActiveIntervals' = 1
         /\ recordingDuration' = durationAtPause]_vars

\* The step in which stopRecording takes effect.
StopStep == isRecording /\ ~isRecording'

\* C5: when stopRecording has taken effect no input stream has a live track,
\* no audio context is open, and neither a duration interval nor an animation
\* frame of the level monitor is scheduled.
C5_StopReleasesAll ==
    [][StopStep =>
         /\ liveStreams' = {}
         /\ openContexts' = {}
         /\ ActiveIntervals' = 0
         /\ ScheduledFrames' = 0]_vars

\* The step in which processRecording of r fails: the encoding or the
\* transcription call rejects.
FinalizeFailStep(r) ==
    /\ calls[r].fin \in {"encoding", "transcribing"}
    /\ calls'[r].fin = "failed"

\* C6: a failed processRecording creates no session: the step leaves the
\* session list, localStorage, the remote store and the transcription text as
\* they are and sets isTranscribing to false, and no save follows it (a failed
\* run stays failed).
C6_FailureLeavesNoSession ==
    [][\A r \in Calls :
         /\ FinalizeFailStep(r) =>
              /\ sessions' = sessions
              /\ localStorage' = localStorage
              /\ db' = db
              /\ transcriptionText' = transcriptionText
              /\ ~isTranscribing'
         /\ calls[r].fin = "failed" => calls'[r].fin = "failed"]_vars

\* C6 witness: a processRecording run has failed.
C6_Witness ==
    \E r \in Calls : calls[r].fin = "failed" /\ ~isTranscribing

\* C10: processRecording of a recorder runs only after that recorder's stop
\* event was delivered, and transcribeAudio is called at most once for it,
\* also after a failure.
C10_FinalizeAfterStopOnce ==
    \A r \in Calls :
        /\ calls[r].fin # "none" => calls[r].stopSignalled /\ calls[r].rec = "inactive"
        /\ calls[r].transcribeCalls <= 1
        /\ calls[r].transcribeCalls = 1 =>
              calls[r].fin \in {"transcribing", "saving", "done", "failed"}

\* C10 witness: a transcription failed after its single call.
C10_Witness ==
    \E r \in Calls : calls[r].fin = "failed" /\ calls[r].transcribeCalls = 1

\* ---------------------------------------------------------------- C7, C8, C9
\* The step in which the remote create of r rejected and saveSession returned.
SaveFailStep(r) ==
    /\ calls[r].fin = "saving"
    /\ calls'[r].fin = "done"
    /\ db' = db

\* e carries the text, duration and language saveSession of r was given.
SavedEntry(r, e) ==
    /\ e.text = calls[r].text
    /\ e.duration = calls[r].dur
    /\ e.language = calls[r].lang

\* C7: when the remote create fails, an entry with the text, duration and
\* language of the save is afterwards at the head of the in-memory list and
\* in the local fallback storage of the current user.
C7_LocalFallbackHoldsEntry ==
    [][\A r \in Calls : SaveFailStep(r) =>
          /\ sessions' # <<>>
          /\ SavedEntry(r, sessions'[1])
          /\ user' # NoUser
          /\ localStorage'[user'].has
          /\ \E i \in 1..Len(localStorage'[user'].val) :
                 Parse(localStorage'[user'].val)[i] = sessions'[1]]_vars

\* C8: the in-memory session list never holds more than 10 sessions, whatever
\* loads (remote or local fallback), saves (remote or local fallback) and
\* deletes have run.
C8_ListAtMostTen == Len(sessions) <= ListLimit

\* A session saved on top of a full list: the list is full again and the
\* oldest session has been dropped.
C8_Witness ==
    /\ Len(sessions) = ListLimit
    /\ sessions[1].text \in Texts
    /\ Len(db["A"]) > ListLimit

\* The step in which the deleteSession call at position i of deletes returned.
DeleteReturnStep(i) ==
    /\ i \in 1..Len(deletes)
    /\ deletes' = RemoveAt(deletes, i)

\* C9: after deleteSession(id) has returned, the session is absent from the
\* in-memory list, from the remote store and from the local fallback storage
\* of the user, also when the session had been saved through the local
\* fallback and the remote delete succeeds.
C9_DeleteRemovesEverywhere ==
    [][\A i \in 1..Len(deletes) : DeleteReturnStep(i) =>
          LET id == deletes[i].id
              usr == deletes[i].usr
          IN /\ id \notin Ids(sessions')
             /\ id \notin Ids(db'[usr])
             /\ localStorage'[usr].has =>
                    id \notin Ids(Parse(localStorage'[usr].val))]_vars

\* ------------------------------------------------------------------------ C11
\* The chunks of s that belong to recordings whose stop event is still to
\* come, cs being the invocations.
PendingChunks(s, cs) == SelectSeq(s, LAMBDA c : ~cs[c[1]].stopSignalled)

IsPrefix(s, t) == Len(s) <= Len(t) /\ SubSeq(t, 1, Len(s)) = s

\* The step in which the stop event of r is delivered and processRecording
\* builds its Blob.
FinalizeStep(r) == ~calls[r].stopSignalled /\ calls'[r].fin = "encoding"

\* C11: the payload finalized for a recording consists of exactly the
\* non-empty chunks its recorder delivered up to its stop signal, in delivery
\* order: until the stop signal no step drops or reorders a collected chunk,
\* and the payload built at the stop signal is the collected buffer and holds
\* chunks of that recorder only.
C11_PayloadIsOwnChunksInOrder ==
    [][/\ IsPrefix(PendingChunks(audioChunksRef, calls),
                   PendingChunks(audioChunksRef', calls))
       /\ \A r \in Calls : FinalizeStep(r) =>
             /\ calls'[r].payload = audioChunksRef'
             /\ \A i \in 1..Len(calls'[r].payload) :
                    calls'[r].payload[i][1] = r]_vars

\* ------------------------------------------------------------------------ C12
\* The step in which pauseRecording pauses or resumes.
PauseStep == isRecording /\ isRecording' /\ isPaused' # isPaused

\* C12: after every step a frame of the level monitor is scheduled exactly
\* when isRecording is true (never while it is false, also after a
\* startRecording that failed after the microphone was granted), and a pause
\* or resume leaves the scheduled frames as they are.
C12_MonitorIffRecording ==
    [][/\ (ScheduledFrames' > 0) <=> isRecording'
       /\ PauseStep => /\ ScheduledFrames' = ScheduledFrames
                       /\ animationFrameRef' = animationFrameRef]_vars

\* ------------------------------------------------------------------------ C13
\* min(100, mean / 128 * 100) of the buffer d, in units of 1/LevelUnit
\* percent: with the sum S of the BinCount bins, mean / 128 * 100 is
\* S * 100 / LevelUnit percent.
ExpectedLevel(d) ==
    LET S == SumBins(d, 1, BinCount)
    IN IF S >= RefAmplitude * BinCount THEN MaxLevel * LevelUnit ELSE S * 100

\* Every buffer of LevelBuffers holds byte amplitudes, and the level computed
\* for it is the expected one.
LevelsAsExpected ==
    \A d \in LevelBuffers :
        /\ \A i \in 1..BinCount : d[i] \in 0..ByteMax
        /\ Level(d) = ExpectedLevel(d)

\* C13: the audio level is within [0, 100] after every step, the level the
\* monitor computes for a buffer of byte amplitudes is
\* min(100, mean / 128 * 100), and stopRecording sets the level to 0.
C13_LevelWithinBounds ==
    [][/\ audioLevel' >= 0
       /\ audioLevel' <= MaxLevel * LevelUnit
       /\ LevelsAsExpected
       /\ StopStep => audioLevel' = 0]_vars

\* C13 witness: the monitor read a buffer above the reference amplitude and
\* the level is at its upper bound.
C13_Witness ==
    /\ isRecording
    /\ audioLevel = MaxLevel * LevelUnit
    /\ \E d \in LevelBuffers : LevelUnclamped(d) > audioLevel /\ Level(d) = audioLevel

\* ------------------------------------------------------------------------ C14
\* The number a sequence of decimal digits denotes.
RECURSIVE DecimalValue(_)
DecimalValue(str) ==
    IF str = <<>> THEN 0
    ELSE LET last == str[Len(str)]
             d == CHOOSE k \in 0..9 : DigitChars[k + 1] = last
         IN 10 * DecimalValue(SubSeq(str, 1, Len(str) - 1)) + d

IsDigits(str) == \A i \in 1..Len(str) : \E k \in 0..9 : DigitChars[k + 1] = str[i]

\* str is "M:SS" for D seconds: the digits of floor(D / 60) without padding,
\* a colon, and D mod 60 in exactly two digits.
IsMinutesSeconds(str, D) ==
    /\ Len(str) >= 4
    /\ LET n == Len(str)
           mm == SubSeq(str, 1, n - 3)
           ss == SubSeq(str, n - 1, n)
       IN /\ str[n - 2] = ":"
          /\ IsDigits(mm) /\ IsDigits(ss)
          /\ DecimalValue(mm) = D \div 60
          /\ Len(mm) > 1 => mm[1] # "0"
          /\ DecimalValue(ss) = D % 60

\* C14: for every duration D >= 0 formatDuration(D) is floor(D / 60) in
\* decimal without padding, a colon, and D mod 60 in exactly two digits:
\* 0 gives "0:00", 65 gives "1:05", and minutes are not wrapped at 60
\* (3600 gives "60:00").
C14_FormatDuration ==
    LET D == recordingDuration
        str == FormatDuration(D)
    IN /\ IsMinutesSeconds(str, D)
       /\ D = 0 => str = <<"0", ":", "0", "0">>
       /\ D = 65 => str = <<"1", ":", "0", "5">>
       /\ D = 3600 => str = <<"6", "0", ":", "0", "0">>

\* C14 witness: a recording of one hour is shown as "60:00".
C14_Witness ==
    /\ isRecording
    /\ recordingDuration = 3600
    /\ FormatDuration(recordingDuration) = <<"6", "0", ":", "0", "0">>

\* ------------------------------------------------------------------------ C15
\* The step in which startRecording of r fails: getUserMedia rejects
\* (permission denied, no device), or the recorder cannot be set up after
\* the microphone was granted.
FailedStartStep(r) ==
    /\ calls[r].media = "pending"
    /\ calls'[r].media \in {"denied", "granted"}
    /\ calls'[r].rec = "none"

\* C15: after a failed startRecording the controller is Idle (neither
\* recording nor transcribing) and holds no stream with a live track, no open
\* audio context, no duration interval and no scheduled monitor frame.
C15_FailedStartIsIdle ==
    [][\A r \in Calls : FailedStartStep(r) =>
          /\ ~isRecording' /\ ~isTranscribing'
          /\ liveStreams' = {}
          /\ openContexts' = {}
          /\ ActiveIntervals' = 0
          /\ ScheduledFrames' = 0]_vars

\* ------------------------------------------------------------------------ C16
\* The step in which a startRecording invocation makes the controller record.
StartStep == ~isRecording /\ isRecording'

TranscribeCallStep(r) ==
    calls[r].fin = "encoding" /\ calls'[r].fin = "transcribing"

\* C17: processRecording calls the transcription service with the language
\* that is selected when it runs, so a language chosen after startRecording
\* and before stopRecording is the one used for the call and the session.
C17_UsesSelectedLanguage ==
    [][\A r \in Calls : TranscribeCallStep(r) =>
          calls[r].lang = selectedLanguage]_vars

\* ------------------------------------------------------------------------ C18
\* The step in which saveSession of r returns, on either branch.
SaveStep(r) == calls[r].fin = "saving" /\ calls'[r].fin = "done"

\* C18: the duration stored in the session of a recording is the value the
\* duration counter had when stopRecording was called for it: the duration
\* processRecording of the stopped recorder passes to saveSession is the
\* counter's value at the stop, and the session saved carries it.
C18_StoredDurationIsCounterAtStop ==
    [][\A r \in Calls :
         /\ (StopStep /\ mediaRecorderRef = r) => calls[r].dur = recordingDuration
         /\ SaveStep(r) => /\ sessions' # <<>>
                           /\ sessions'[1].duration = calls[r].dur]_vars

\* ------------------------------------------------------------------------ C19
\* C19: a deleted session stays deleted: once deleteSession(id) has returned,
\* the session with that id is neither in the in-memory list nor in a
\* localStorage entry, whatever other operations were in flight.  Stated for
\* the sessions the remote store holds no more, which no reload brings back
\* (C9 is about deletes that leave the session in a store).
C19_DeletedStaysDeleted ==
    \A id \in deleted :
        (\A u \in Users : id \notin Ids(db[u])) =>
            /\ id \notin Ids(sessions)
            /\ \A u \in Users :
                  localStorage[u].has => id \notin Ids(Parse(localStorage[u].val))

\* ------------------------------------------------------------------------ C20
\* The ids of the sessions user A created (in SpecOwners: all sessions).
SessionsOfA == {OldSession(i).id : i \in 1..PreExisting}

\* C20: the in-memory list and the localStorage entry of a user hold only
\* sessions of the signed-in user: once B is signed in and B's list call has
\* returned (also by failing, with no localStorage entry of B), the list
\* holds no session of A, and B's localStorage entry never holds one.
C20_OnlyOwnSessions ==
    /\ (user = "B" /\ loads["B"] = 0) => Ids(sessions) \cap SessionsOfA = {}
    /\ localStorage["B"].has =>
           Ids(Parse(localStorage["B"].val)) \cap SessionsOfA = {}

\* ------------------------------------------------------------------------ C21
\* C21: in every reachable state isPaused implies isRecording: the step in
\* which startRecording takes effect sets isRecording to true and isPaused
\* to false, isPaused changes only in steps taken while isRecording is true,
\* and stopRecording clears both flags in one step.
C21_PausedImpliesRecording ==
    [][/\ isPaused' => isRecording'
       /\ StartStep => isRecording' /\ ~isPaused'
       /\ isPaused' # isPaused => isRecording
       /\ StopStep => ~isRecording' /\ ~isPaused']_vars

\* C21 witness: a recording is paused.
C21_Witness ==
    /\ isRecording /\ isPaused
    /\ mediaRecorderRef # NoCall
    /\ calls[mediaRecorderRef].rec = "paused"

====
